---- MODULE Spec2Model ----
(***************************************************************************)
(* CLIgen variable vectors (cligen_cvec.c) as a state machine over an      *)
(* explicit heap.  A cvec is a struct {vr_len, vr_vec, vr_name}; vr_vec    *)
(* points to a heap block holding an array of cg_var cells, vr_name to a   *)
(* heap block holding the characters of the name.  Element references are  *)
(* pointers [blk, idx] into array blocks, so that relocation by realloc,   *)
(* stale references and aliasing between vectors are visible.              *)
(***************************************************************************)
EXTENDS Integers, Sequences, FiniteSets, TLC

\* Bounds of the exploration.
MaxLen == 3
MaxBlk == 3
MaxStr == 3
MaxCells == 4
MaxDupLen == 2
MaxOomLen == 2
MaxNameLen == 2
\* Most children of a cg_obj, and most siblings at the top of a parse-tree.
MaxKids == 2

Handles == {"v", "d"}

Min(S) == CHOOSE x \in S : \A y \in S : x <= y

(***************************************************************************)
(* Values                                                                  *)
(***************************************************************************)
\* A NULL char* held in a cg_var (payload strings are kept inline).
NullStr == "(null)"

\* A NULL cg_var*; &vr_vec[i] is [blk |-> vr_vec, idx |-> i].
NullPtr == [blk |-> 0, idx |-> 0]

\* A cell after memset(cv, 0, sizeof(*cv)) or calloc.
cg_var_zero ==
    [var_type |-> "CGV_ERR", var_name |-> NullStr,
     var_const |-> FALSE, var_string |-> NullStr]

\* A cell whose bytes were never written (malloc'ed, realloc-grown) or that
\* lies outside every live array block.
Wild ==
    [var_type |-> "?", var_name |-> "?", var_const |-> FALSE, var_string |-> "?"]

\* What a read of a cg_var outside every live block may do: fault, or find
\* bytes of any type there.
Segv == [crash |-> TRUE, cv |-> Wild]
WildRead ==
    {Segv, [crash |-> FALSE, cv |-> Wild],
     [crash |-> FALSE, cv |-> [Wild EXCEPT !.var_type = "CGV_STRING"]]}

\* The types a caller asks cvec_add for.
Types == {"CGV_STRING"}

\* The caller's cg_vars handed to cvec_append_var.
Sources ==
    << [var_type |-> "CGV_STRING", var_name |-> "a",     var_const |-> FALSE, var_string |-> "x"],
       [var_type |-> "CGV_STRING", var_name |-> "a",     var_const |-> TRUE,  var_string |-> "y"],
       [var_type |-> "CGV_INT32",  var_name |-> "b",     var_const |-> FALSE, var_string |-> NullStr],
       [var_type |-> "CGV_INT32",  var_name |-> NullStr, var_const |-> TRUE,  var_string |-> NullStr] >>

\* Names asked of the find functions; NullStr is name == NULL.
Names == {NullStr, "a", "b", "c"}

\* A char* argument: blk = 0 is NULL, blk = -1 a string of the caller's
\* (its characters in lit), blk > 0 a pointer off characters into a heap string.
NullName == [blk |-> 0, off |-> 0, lit |-> <<>>]
Lit(s) == [blk |-> -1, off |-> 0, lit |-> s]
NameLits == {<<"a", "b">>}

NoVec == [live |-> FALSE, vr_len |-> 0, vr_vec |-> 0, vr_name |-> 0]
FreeArr == [live |-> FALSE, cells |-> <<>>]
FreeStr == [live |-> FALSE, chars |-> <<>>]

\* cvv: the cvec structs the caller holds, by handle (live = FALSE: the
\* handle is NULL); arrs, strs: the heap blocks of cg_var arrays and of
\* name strings; fault: the process has crashed; lost: cvec structs that are
\* allocated and that nothing refers to; last: the last call and how it
\* ended ("ok"; "none": it returned NULL or changed nothing; "rollback":
\* cvec_append_var undid its cvec_add; "crash").  it: the loop
\* "cv = NULL; while ((cv = cvec_each(h, cv)) != NULL)" the caller is in, if
\* any: the vector, whether it is cvec_each1's, cv, the elements yielded so
\* far and whether the NULL that ends the loop was returned.
\* pr: the parse-tree the caller holds and the call of pt_print or co_print
\* it made on it, if any, with what the call returned and wrote.
VARIABLES cvv, arrs, strs, fault, lost, last, it, pr

vars == <<cvv, arrs, strs, fault, lost, last, it, pr>>

NoIter == [on |-> FALSE, h |-> "v", skip |-> FALSE, prev |-> NullPtr, n |-> 0, done |-> FALSE]

\* The memory the functions below read and write.
Mem == [cvv |-> cvv, arrs |-> arrs, strs |-> strs, fault |-> fault]

Call(op, rc) == [op |-> op, rc |-> rc]

(***************************************************************************)
(* The heap                                                                *)
(***************************************************************************)
FreeBlks(m) == {b \in 1..MaxBlk : ~m.arrs[b].live}
FreeStrs(m) == {b \in 1..MaxStr : ~m.strs[b].live}

Crash(m) == [m EXCEPT !.fault = TRUE]

\* cells resized to n, the new ones unwritten
Resize(cells, n) == [i \in 1..n |-> IF i <= Len(cells) THEN cells[i] ELSE Wild]

\* free(b) of an array block; freeing what is not allocated is a fault
free_arr(m, b) ==
    IF b = 0 THEN m
    ELSE IF ~m.arrs[b].live THEN Crash(m)
    ELSE [m EXCEPT !.arrs[b] = FreeArr]

free_str(m, b) ==
    IF b = 0 THEN m
    ELSE IF ~m.strs[b].live THEN Crash(m)
    ELSE [m EXCEPT !.strs[b] = FreeStr]

\* calloc(n, sizeof(cg_var)), n > 0: [m, ptr]
calloc(m, n, ch) ==
    IF ch = "fail" \/ FreeBlks(m) = {} THEN [m |-> m, ptr |-> 0]
    ELSE LET b == Min(FreeBlks(m))
         IN [m |-> [m EXCEPT !.arrs[b] = [live |-> TRUE, cells |-> [i \in 1..n |-> cg_var_zero]]],
             ptr |-> b]

\* realloc(b, n * sizeof(cg_var)): [m, ptr].  ch is what the allocator does:
\* "fail" returns NULL and leaves the block; "inplace" keeps the address;
\* "move" allocates elsewhere, copies and frees the old block.  With n = 0
\* "move" frees the block and returns NULL and "inplace" keeps a block of
\* no cells.
realloc(m, b, n, ch) ==
    IF ch = "fail" THEN [m |-> m, ptr |-> 0]
    ELSE IF b # 0 /\ ~m.arrs[b].live THEN [m |-> Crash(m), ptr |-> 0]
    ELSE IF n = 0 /\ ch = "move" THEN [m |-> free_arr(m, b), ptr |-> 0]
    ELSE IF b # 0 /\ (ch = "inplace" \/ FreeBlks(m) = {}) THEN
        [m |-> [m EXCEPT !.arrs[b].cells = Resize(@, n)], ptr |-> b]
    ELSE IF FreeBlks(m) = {} THEN [m |-> m, ptr |-> 0]
    ELSE LET nb == Min(FreeBlks(m))
             old == IF b = 0 THEN <<>> ELSE m.arrs[b].cells
             m1 == [m EXCEPT !.arrs[nb] = [live |-> TRUE, cells |-> Resize(old, n)]]
         IN [m |-> IF b = 0 THEN m1 ELSE [m1 EXCEPT !.arrs[b] = FreeArr], ptr |-> nb]

\* Whether p points to a cell of a live array block.
Valid(m, p) ==
    /\ p.blk \in 1..MaxBlk
    /\ m.arrs[p.blk].live
    /\ p.idx >= 0
    /\ p.idx < Len(m.arrs[p.blk].cells)

\* *p
Deref(m, p) == IF Valid(m, p) THEN m.arrs[p.blk].cells[p.idx + 1] ELSE Wild

\* *p = val
Store(m, p, val) ==
    IF Valid(m, p) THEN [m EXCEPT !.arrs[p.blk].cells[p.idx + 1] = val] ELSE Crash(m)

\* The address of a cell in a linear address space: what pointer
\* subtraction and comparison see.
Stride == MaxLen + 3
Addr(p) == p.blk * Stride + p.idx

\* memmove(&b[dst], &b[src], cnt * sizeof(cg_var)).  A move that leaves the
\* block (or whose size is negative, a huge size_t) is undefined: ub is what
\* the build does then, "crash", or "continue" with the cells inside the
\* block that the move reaches written.
memmove(m, b, dst, src, cnt, ub) ==
    LET n == IF b \in 1..MaxBlk /\ m.arrs[b].live THEN Len(m.arrs[b].cells) ELSE 0
        inside == /\ cnt >= 0 /\ dst >= 0 /\ src >= 0
                  /\ dst + cnt <= n /\ src + cnt <= n
        old == m.arrs[b].cells
        moved == [j \in 1..n |->
                    LET k == (j - 1) - dst
                    IN IF k >= 0 /\ k < cnt /\ src + k >= 0 /\ src + k < n
                       THEN old[src + k + 1] ELSE old[j]]
    IN IF inside THEN (IF cnt = 0 THEN m ELSE [m EXCEPT !.arrs[b].cells = moved])
       ELSE IF ub = "crash" \/ n = 0 THEN Crash(m)
       ELSE [m EXCEPT !.arrs[b].cells = moved]

(***************************************************************************)
(* cg_var functions of cligen_cv.c, which this vector code calls           *)
(***************************************************************************)
cv_type_get(c) == c.var_type

cv_isstring(t) == t = "CGV_STRING"

\* the string value of a string-typed cg_var
cv_string_get(c) == IF cv_isstring(c.var_type) THEN c.var_string ELSE NullStr

\* release what the cg_var owns; the type stays
cv_reset(c) == [cg_var_zero EXCEPT !.var_type = c.var_type]

\* deep copy of the value c into *dst: [m, rc]
cv_cp(m, dst, c, ok) ==
    IF ok THEN [m |-> Store(m, dst, c), rc |-> 0] ELSE [m |-> m, rc |-> -1]

\* strcmp(a, b) == 0; a NULL argument is undefined: ub is its outcome
strcmp_eq(a, b, ub) ==
    IF a = NullStr \/ b = NullStr THEN ub ELSE IF a = b THEN "eq" ELSE "ne"

(***************************************************************************)
(* cligen_cvec.c                                                           *)
(***************************************************************************)
cvec_len(m, h) == IF ~m.cvv[h].live THEN 0 ELSE m.cvv[h].vr_len

cvec_i(m, h, i) ==
    IF ~m.cvv[h].live THEN NullPtr
    ELSE IF i < m.cvv[h].vr_len THEN [blk |-> m.cvv[h].vr_vec, idx |-> i]
    ELSE NullPtr

\* [ret, fault]; w is what reading a cg_var outside every live block does:
\* a fault, or the bytes found there read as a cg_var
cvec_i_str(m, h, i, w) ==
    LET cv == cvec_i(m, h, i)
    IN IF cv = NullPtr THEN [ret |-> NullStr, fault |-> FALSE]
       ELSE IF Valid(m, cv) THEN [ret |-> cv_string_get(Deref(m, cv)), fault |-> FALSE]
       ELSE IF w.crash THEN [ret |-> NullStr, fault |-> TRUE]
       ELSE [ret |-> cv_string_get(w.cv), fault |-> FALSE]

\* A cvec_next that steps once more, past the last element.
cvec_next_past(m, h, cv0) ==
    IF ~m.cvv[h].live THEN NullPtr
    ELSE IF cv0 = NullPtr THEN [blk |-> m.cvv[h].vr_vec, idx |-> 0]
    ELSE LET i == Addr(cv0) - Addr([blk |-> m.cvv[h].vr_vec, idx |-> 0])
         IN IF i < m.cvv[h].vr_len THEN [cv0 EXCEPT !.idx = @ + 1] ELSE NullPtr

cvec_next(m, h, cv0) ==
    IF ~m.cvv[h].live THEN NullPtr
    ELSE IF cv0 = NullPtr THEN [blk |-> m.cvv[h].vr_vec, idx |-> 0]
    ELSE LET i == Addr(cv0) - Addr([blk |-> m.cvv[h].vr_vec, idx |-> 0])
         IN IF i < m.cvv[h].vr_len - 1 THEN [cv0 EXCEPT !.idx = @ + 1] ELSE NullPtr

cvec_each(m, h, prev) ==
    IF ~m.cvv[h].live THEN NullPtr
    ELSE IF prev = NullPtr THEN
        (IF m.cvv[h].vr_len > 0 THEN [blk |-> m.cvv[h].vr_vec, idx |-> 0] ELSE NullPtr)
    ELSE cvec_next(m, h, prev)

cvec_each1(m, h, prev) ==
    IF ~m.cvv[h].live THEN NullPtr
    ELSE IF prev = NullPtr THEN
        (IF m.cvv[h].vr_len > 1 THEN [blk |-> m.cvv[h].vr_vec, idx |-> 1] ELSE NullPtr)
    ELSE cvec_next(m, h, prev)

\* [m, rc]
cvec_init(m, h, len, ch) ==
    LET m1 == [m EXCEPT !.cvv[h].vr_len = len]
        r == calloc(m1, len, ch)
    IN IF len # 0 THEN
           [m |-> [r.m EXCEPT !.cvv[h].vr_vec = r.ptr],
            rc |-> IF r.ptr = 0 THEN -1 ELSE 0]
       ELSE [m |-> m1, rc |-> 0]

\* [m, ok]: ok is whether a vector (not NULL) is returned; chs is malloc's
\* outcome for the struct, ch calloc's for the elements
cvec_new(m, h, len, chs, ch) ==
    IF chs = "fail" THEN [m |-> m, ok |-> FALSE]
    ELSE LET m1 == [m EXCEPT !.cvv[h] = [NoVec EXCEPT !.live = TRUE]]
             r == cvec_init(m1, h, len, ch)
         IN IF r.rc < 0 THEN [m |-> [r.m EXCEPT !.cvv[h] = NoVec], ok |-> FALSE]
            ELSE [m |-> r.m, ok |-> TRUE]

RECURSIVE cvec_reset_loop(_, _, _)
cvec_reset_loop(m, h, cv) ==
    IF cv = NullPtr \/ m.fault THEN m
    ELSE cvec_reset_loop(Store(m, cv, cv_reset(Deref(m, cv))), h, cvec_each(m, h, cv))

\* A cvec_reset that frees and leaves the struct as it is.
cvec_reset_nozero(m, h) ==
    IF ~m.cvv[h].live THEN m
    ELSE LET m1 == cvec_reset_loop(m, h, cvec_each(m, h, NullPtr))
             m2 == IF m1.cvv[h].vr_vec # 0 THEN free_arr(m1, m1.cvv[h].vr_vec) ELSE m1
         IN IF m2.cvv[h].vr_name # 0 THEN free_str(m2, m2.cvv[h].vr_name) ELSE m2

cvec_reset(m, h) ==
    IF ~m.cvv[h].live THEN m
    ELSE LET m1 == cvec_reset_loop(m, h, cvec_each(m, h, NullPtr))
             m2 == IF m1.cvv[h].vr_vec # 0 THEN free_arr(m1, m1.cvv[h].vr_vec) ELSE m1
             m3 == IF m2.cvv[h].vr_name # 0 THEN free_str(m2, m2.cvv[h].vr_name) ELSE m2
         IN [m3 EXCEPT !.cvv[h] = [NoVec EXCEPT !.live = TRUE]]

cvec_free(m, h) ==
    IF m.cvv[h].live THEN [cvec_reset(m, h) EXCEPT !.cvv[h] = NoVec] ELSE m

\* [m, ret]
cvec_add(m, h, type, ch) ==
    IF ~m.cvv[h].live THEN [m |-> m, ret |-> NullPtr]
    ELSE LET len == m.cvv[h].vr_len + 1
             r == realloc(m, m.cvv[h].vr_vec, len, ch)
             m1 == [r.m EXCEPT !.cvv[h].vr_vec = r.ptr]
         IN IF r.ptr = 0 THEN [m |-> m1, ret |-> NullPtr]
            ELSE LET m2 == [m1 EXCEPT !.cvv[h].vr_len = len]
                     cv == cvec_i(m2, h, len - 1)
                 IN [m |-> Store(m2, cv, [cg_var_zero EXCEPT !.var_type = type]),
                     ret |-> cv]

RECURSIVE cvec_del_scan(_, _, _, _, _)
cvec_del_scan(m, h, cv, del, i) ==
    IF cv = NullPtr THEN i
    ELSE IF cv = del THEN i
    ELSE cvec_del_scan(m, h, cvec_each(m, h, cv), del, i + 1)

\* A cvec_del that drops the last element whichever one is asked for.
cvec_del_last(m, h, del, ch) ==
    IF cvec_len(m, h) = 0 THEN [m |-> m, ret |-> 0]
    ELSE LET i == cvec_del_scan(m, h, cvec_each(m, h, NullPtr), del, 0)
         IN IF i >= cvec_len(m, h) THEN [m |-> m, ret |-> cvec_len(m, h)]
            ELSE LET m2 == [m EXCEPT !.cvv[h].vr_len = @ - 1]
                     r == realloc(m2, m2.cvv[h].vr_vec, m2.cvv[h].vr_len, ch)
                     m3 == [r.m EXCEPT !.cvv[h].vr_vec = r.ptr]
                 IN [m |-> m3, ret |-> cvec_len(m3, h)]

\* [m, ret]; ch is the outcome of the shrinking realloc
cvec_del(m, h, del, ch) ==
    IF cvec_len(m, h) = 0 THEN [m |-> m, ret |-> 0]
    ELSE LET i == cvec_del_scan(m, h, cvec_each(m, h, NullPtr), del, 0)
         IN IF i >= cvec_len(m, h) THEN [m |-> m, ret |-> cvec_len(m, h)]
            ELSE LET m1 == IF i # cvec_len(m, h) - 1
                           THEN memmove(m, m.cvv[h].vr_vec, i, i + 1,
                                        m.cvv[h].vr_len - i - 1, "crash")
                           ELSE m
                     m2 == [m1 EXCEPT !.cvv[h].vr_len = @ - 1]
                     r == realloc(m2, m2.cvv[h].vr_vec, m2.cvv[h].vr_len, ch)
                     m3 == [r.m EXCEPT !.cvv[h].vr_vec = r.ptr]
                 IN [m |-> m3, ret |-> cvec_len(m3, h)]

\* A cvec_del_i that returns the length it found.
cvec_del_i_oldlen(m, h, i, ub) ==
    IF cvec_len(m, h) = 0 \/ cvec_len(m, h) < i THEN [m |-> m, ret |-> 0]
    ELSE LET m1 == IF i # cvec_len(m, h) - 1
                   THEN memmove(m, m.cvv[h].vr_vec, i, i + 1,
                                m.cvv[h].vr_len - i - 1, ub)
                   ELSE m
         IN [m |-> [m1 EXCEPT !.cvv[h].vr_len = @ - 1], ret |-> cvec_len(m, h)]

\* [m, ret]
cvec_del_i(m, h, i, ub) ==
    IF cvec_len(m, h) = 0 \/ cvec_len(m, h) < i THEN [m |-> m, ret |-> 0]
    ELSE LET m1 == IF i # cvec_len(m, h) - 1
                   THEN memmove(m, m.cvv[h].vr_vec, i, i + 1,
                                m.cvv[h].vr_len - i - 1, ub)
                   ELSE m
             m2 == [m1 EXCEPT !.cvv[h].vr_len = @ - 1]
         IN [m |-> m2, ret |-> cvec_len(m2, h)]

\* The cg_var a source argument of cvec_append_var denotes: one of the
\* caller's (k > 0) or the cell p points to (k = 0).
SrcVal(m, src) == IF src.k > 0 THEN Sources[src.k] ELSE Deref(m, src.p)

\* A cvec_append_var that reports a failed copy and keeps the slot it added.
cvec_append_var_keep(m, h, src, ch, ok, chd, dr) ==
    IF ~m.cvv[h].live \/ (src.k = 0 /\ src.p = NullPtr) THEN [m |-> m, ret |-> NullPtr]
    ELSE LET a == cvec_add(m, h, cv_type_get(SrcVal(m, src)), ch)
             dangling == src.k = 0 /\ ~Valid(a.m, src.p)
             val == IF ~dangling THEN SrcVal(a.m, src)
                    ELSE IF dr = "stale" THEN SrcVal(m, src) ELSE Wild
         IN IF a.ret = NullPtr THEN a
            ELSE IF dangling /\ dr = "crash" THEN [m |-> Crash(a.m), ret |-> NullPtr]
            ELSE LET c == cv_cp(a.m, a.ret, val, ok)
                 IN IF c.rc < 0 THEN [m |-> c.m, ret |-> NullPtr]
                    ELSE [m |-> c.m, ret |-> a.ret]

\* [m, ret]; ch: the growing realloc, ok: whether cv_cp succeeds, chd: the
\* shrinking realloc of the rollback, dr: what reading the source through a
\* reference the growth has invalidated gives ("crash", "stale", "wild")
cvec_append_var(m, h, src, ch, ok, chd, dr) ==
    IF ~m.cvv[h].live \/ (src.k = 0 /\ src.p = NullPtr) THEN [m |-> m, ret |-> NullPtr]
    ELSE LET a == cvec_add(m, h, cv_type_get(SrcVal(m, src)), ch)
             dangling == src.k = 0 /\ ~Valid(a.m, src.p)
             val == IF ~dangling THEN SrcVal(a.m, src)
                    ELSE IF dr = "stale" THEN SrcVal(m, src) ELSE Wild
         IN IF a.ret = NullPtr THEN a
            ELSE IF dangling /\ dr = "crash" THEN [m |-> Crash(a.m), ret |-> NullPtr]
            ELSE LET c == cv_cp(a.m, a.ret, val, ok)
                 IN IF c.rc < 0
                    THEN [m |-> cvec_del(c.m, h, a.ret, chd).m, ret |-> NullPtr]
                    ELSE [m |-> c.m, ret |-> a.ret]

\* The characters a char* argument points to.
CharsOf(m, s) ==
    IF s.blk = -1 THEN s.lit
    ELSE SubSeq(m.strs[s.blk].chars, s.off + 1, Len(m.strs[s.blk].chars))

\* strdup4(s): [m, ptr]; reading a freed string is a fault
strdup4(m, s, ok) ==
    IF s.blk > 0 /\ ~m.strs[s.blk].live THEN [m |-> Crash(m), ptr |-> 0]
    ELSE IF ~ok \/ FreeStrs(m) = {} THEN [m |-> m, ptr |-> 0]
    ELSE LET b == Min(FreeStrs(m))
         IN [m |-> [m EXCEPT !.strs[b] = [live |-> TRUE, chars |-> CharsOf(m, s)]],
             ptr |-> b]

RECURSIVE cvec_dup_loop(_, _, _, _, _, _)
cvec_dup_loop(m, old, new, cv0, i, cf) ==
    IF cv0 = NullPtr THEN m
    ELSE LET cv1 == cvec_i(m, new, i)
             c == cv_cp(m, cv1, Deref(m, cv0), i # cf)
         IN cvec_dup_loop(c.m, old, new, cvec_each(c.m, old, cv0), i + 1, cf)

\* A cvec_dup that copies the struct and shares the array and the name.
cvec_dup_shallow(m, old, new, chs, ch, okn, cf) ==
    IF ~m.cvv[old].live THEN [m |-> m, ok |-> FALSE, lost |-> FALSE]
    ELSE [m |-> [m EXCEPT !.cvv[new] = m.cvv[old]], ok |-> TRUE, lost |-> FALSE]

\* cvec_dup(old) into the handle new: [m, ok, lost]; ok is whether a vector
\* is returned, lost whether a vector was allocated and not returned.
\* chs, ch: cvec_new's allocations, okn: the name copy, cf: the index of the
\* element whose cv_cp fails (-1: none)
cvec_dup(m, old, new, chs, ch, okn, cf) ==
    IF ~m.cvv[old].live THEN [m |-> m, ok |-> FALSE, lost |-> FALSE]
    ELSE LET n == cvec_new(m, new, m.cvv[old].vr_len, chs, ch)
             d == strdup4(n.m, [blk |-> m.cvv[old].vr_name, off |-> 0, lit |-> <<>>], okn)
             m1 == IF m.cvv[old].vr_name # 0
                   THEN [d.m EXCEPT !.cvv[new].vr_name = d.ptr] ELSE n.m
         IN IF ~n.ok THEN [m |-> n.m, ok |-> FALSE, lost |-> FALSE]
            ELSE IF m.cvv[old].vr_name # 0 /\ d.ptr = 0
            THEN [m |-> m1, ok |-> FALSE, lost |-> TRUE]
            ELSE [m |-> cvec_dup_loop(m1, old, new, cvec_each(m1, old, NullPtr), 0, cf),
                  ok |-> TRUE, lost |-> FALSE]

RECURSIVE cvec_find_loop(_, _, _, _)
cvec_find_loop(m, h, cv, name) ==
    IF cv = NullPtr THEN NullPtr
    ELSE LET c == Deref(m, cv)
         IN IF c.var_name # NullStr
            THEN (IF name # NullStr /\ strcmp_eq(c.var_name, name, "crash") = "eq"
                  THEN cv ELSE cvec_find_loop(m, h, cvec_each(m, h, cv), name))
            ELSE IF name = NullStr THEN cv
            ELSE cvec_find_loop(m, h, cvec_each(m, h, cv), name)

\* A cvec_find that finds no element when name is NULL.
cvec_find_named(m, h, name) ==
    IF name = NullStr THEN NullPtr
    ELSE cvec_find_loop(m, h, cvec_each(m, h, NullPtr), name)

cvec_find(m, h, name) == cvec_find_loop(m, h, cvec_each(m, h, NullPtr), name)

\* The loop of cvec_find_keyword (const = TRUE) and of cvec_find_var
\* (const = FALSE): [ret, fault]
RECURSIVE cvec_find_const_loop(_, _, _, _, _, _)
cvec_find_const_loop(m, h, cv, name, const, ub) ==
    IF cv = NullPtr THEN [ret |-> NullPtr, fault |-> FALSE]
    ELSE LET c == Deref(m, cv)
             cmp == strcmp_eq(c.var_name, name, ub)
         IN IF c.var_name # NullStr /\ cmp = "crash" THEN [ret |-> NullPtr, fault |-> TRUE]
            ELSE IF c.var_name # NullStr /\ cmp = "eq" /\ c.var_const = const
            THEN [ret |-> cv, fault |-> FALSE]
            ELSE cvec_find_const_loop(m, h, cvec_each(m, h, cv), name, const, ub)

cvec_find_keyword(m, h, name, ub) ==
    cvec_find_const_loop(m, h, cvec_each(m, h, NullPtr), name, TRUE, ub)

cvec_find_var(m, h, name, ub) ==
    cvec_find_const_loop(m, h, cvec_each(m, h, NullPtr), name, FALSE, ub)

cvec_find_str(m, h, name) ==
    LET cv == cvec_find(m, h, name)
    IN IF cv # NullPtr /\ cv_isstring(Deref(m, cv).var_type)
       THEN cv_string_get(Deref(m, cv)) ELSE NullStr

cvec_name_get(m, h) == m.cvv[h].vr_name

\* A cvec_name_set that frees the name the vector has first.
cvec_name_set_freefirst(m, h, name, ok) ==
    LET m0 == IF m.cvv[h].vr_name # 0 THEN free_str(m, m.cvv[h].vr_name) ELSE m
        d == IF name # NullName THEN strdup4(m0, name, ok) ELSE [m |-> m0, ptr |-> 0]
    IN IF name # NullName /\ d.ptr = 0 THEN [m |-> d.m, ret |-> 0]
       ELSE IF ~m.cvv[h].live THEN [m |-> Crash(d.m), ret |-> 0]
       ELSE [m |-> [d.m EXCEPT !.cvv[h].vr_name = d.ptr], ret |-> d.ptr]

\* [m, ret]
cvec_name_set(m, h, name, ok) ==
    LET d == IF name # NullName THEN strdup4(m, name, ok) ELSE [m |-> m, ptr |-> 0]
        m1 == IF d.m.cvv[h].vr_name # 0 THEN free_str(d.m, d.m.cvv[h].vr_name) ELSE d.m
    IN IF name # NullName /\ d.ptr = 0 THEN [m |-> d.m, ret |-> 0]
       ELSE IF ~m.cvv[h].live THEN [m |-> Crash(d.m), ret |-> 0]
       ELSE [m |-> [m1 EXCEPT !.cvv[h].vr_name = d.ptr], ret |-> d.ptr]

(***************************************************************************)
(* cligen_print.c.  Text is a sequence of tokens: a character that         *)
(* structures the output (newline, a space of indentation, a brace, ...)   *)
(* is a token of its own, a name or a value is one token.  A cg_obj is a   *)
(* record; its parse-tree of children is the sequence pt, a NULL slot of   *)
(* which is NullObj.                                                       *)
(***************************************************************************)
\* A char* that is NULL, for strings kept as text.
NullText == <<NullStr>>

\* A cvec of rendered values, or a cvec* that is NULL (co_helpvec, cc_cvec).
Vec(cvs) == [null |-> FALSE, cvs |-> cvs]
NullVec == [null |-> TRUE, cvs |-> <<>>]

\* A cg_var as the printer sees it: its type and the text cv2cbuf gives it.
Cv(text) == [var_type |-> "CGV_STRING", text |-> text]
EmptyCv == [var_type |-> "CGV_EMPTY", text |-> ""]

NullObj == [co_type |-> "NULL"]

\* A cg_obj of a type and a command, all else unset.
Obj(type, cmd) ==
    [co_type |-> type, co_command |-> cmd, co_choice |-> NullText, co_show |-> NullStr,
     co_vtype |-> "string", co_rangecvv_low |-> <<>>, co_rangecvv_upp |-> <<>>,
     co_expand_fn_str |-> NullStr, co_expand_fn_vec |-> NullVec, co_regex |-> <<>>,
     co_translate_fn_str |-> NullStr, co_helpvec |-> NullVec,
     hide |-> FALSE, hide_database |-> FALSE, co_callbacks |-> <<>>,
     terminal |-> FALSE, sets |-> FALSE, pt |-> <<>>]

\* cprintf(cb, "%*s", n, "")
Spaces(n) == [i \in 1..n |-> " "]

\* The concatenation of the texts f[1], ..., f[n].
RECURSIVE Cat(_, _)
Cat(f, n) == IF n = 0 THEN <<>> ELSE Cat(f, n - 1) \o f[n]

\* The texts f[1], ..., f[n] with sep between each two: the loops
\* "while (cvec_each) { if (i++) cprintf(sep); cv2cbuf(cv); }".
RECURSIVE Join(_, _, _)
Join(f, n, sep) ==
    IF n = 0 THEN <<>>
    ELSE IF n = 1 THEN f[1]
    ELSE Join(f, n - 1, sep) \o <<sep>> \o f[n]

\* strchr(text, c) != NULL
strchr(text, c) == \E i \in 1..Len(text) : text[i] = c

\* Functions of cligen_cv.c and cligen_object.c the printer calls.
cv_type2str(t) == t
cv_isint(t) == t \in {"int8", "int16", "int32", "int64", "uint8", "uint16", "uint32", "uint64"}
cv2cbuf(cv) == <<cv.text>>
cvec2cbuf(vec) == Join([i \in 1..Len(vec.cvs) |-> cv2cbuf(vec.cvs[i])], Len(vec.cvs), ",")
co_flags_get(co, flag) == co[flag]
co_terminal(co) == co.terminal
co_sets_get(co) == co.sets
co_pt_get(co) == co.pt
pt_len_get(pt) == Len(pt)
pt_vec_i_get(pt, i) == pt[i + 1]

\* The range[...] / length[...] clauses of cov2cbuf's loop.
cov2cbuf_range_low(co) ==
    Cat([i \in 1..Len(co.co_rangecvv_upp) |->
            (IF cv_isint(co.co_vtype) THEN <<" range[">> ELSE <<" length[">>)
            \o cv2cbuf(co.co_rangecvv_low[i]) \o <<":">>
            \o cv2cbuf(co.co_rangecvv_upp[i]) \o <<"]">>],
        Len(co.co_rangecvv_upp))

cov2cbuf_range(co) ==
    Cat([i \in 1..Len(co.co_rangecvv_upp) |->
            (IF cv_isint(co.co_vtype) THEN <<" range[">> ELSE <<" length[">>)
            \o (IF co.co_rangecvv_low[i].var_type # "CGV_EMPTY"
                THEN cv2cbuf(co.co_rangecvv_low[i]) \o <<":">> ELSE <<>>)
            \o cv2cbuf(co.co_rangecvv_upp[i]) \o <<"]">>],
        Len(co.co_rangecvv_upp))

cov2cbuf_type(co, brief) ==
    IF co.co_choice # NullText THEN
        (IF strchr(co.co_choice, "|") THEN <<"(">> \o co.co_choice \o <<")">>
         ELSE co.co_choice)
    ELSE <<"<", IF co.co_show # NullStr THEN co.co_show ELSE co.co_command,
           ":", cv_type2str(co.co_vtype), ">">>

cov2cbuf(co, brief) ==
    IF co.co_choice # NullText THEN
        (IF strchr(co.co_choice, "|") THEN <<"(">> \o co.co_choice \o <<")">>
         ELSE co.co_choice)
    ELSE IF brief THEN
        <<"<", IF co.co_show # NullStr THEN co.co_show ELSE co.co_command, ">">>
    ELSE <<"<", co.co_command, ":", cv_type2str(co.co_vtype)>>
         \o cov2cbuf_range(co)
         \o (IF co.co_show # NullStr THEN <<" show:\"", co.co_show, "\"">> ELSE <<>>)
         \o (IF co.co_expand_fn_str # NullStr
             THEN <<" ", co.co_expand_fn_str, "(\"">>
                  \o (IF co.co_expand_fn_vec # NullVec
                      THEN cvec2cbuf(co.co_expand_fn_vec) ELSE <<>>)
                  \o <<"\")">>
             ELSE <<>>)
         \o Cat([i \in 1..Len(co.co_regex) |-> <<" regexp:\"", co.co_regex[i], "\"">>],
                Len(co.co_regex))
         \o (IF co.co_translate_fn_str # NullStr
             THEN <<" translate:", co.co_translate_fn_str, "()">> ELSE <<>>)
         \o <<">">>

\* co2cbuf up to the test of co_terminal: the node's own text.
co2cbuf_own(co, brief) ==
    (CASE co.co_type = "CO_COMMAND" ->
            IF co.co_command # NullStr THEN <<co.co_command>> ELSE <<>>
       [] co.co_type = "CO_REFERENCE" ->
            IF co.co_command # NullStr THEN <<"@", co.co_command>> ELSE <<>>
       [] co.co_type = "CO_VARIABLE" -> cov2cbuf(co, brief)
       [] co.co_type = "CO_EMPTY" -> <<";">>)
    \o (IF ~brief
        THEN (IF ~co.co_helpvec.null
              THEN <<"(\"">>
                   \o Join([i \in 1..Len(co.co_helpvec.cvs) |-> cv2cbuf(co.co_helpvec.cvs[i])],
                           Len(co.co_helpvec.cvs), "\n")
                   \o <<"\")">>
              ELSE <<>>)
             \o (IF co_flags_get(co, "hide") THEN <<", hide">> ELSE <<>>)
             \o (IF ~co_flags_get(co, "hide") /\ co_flags_get(co, "hide_database")
                 THEN <<", hide-database">> ELSE <<>>)
             \o (IF co_flags_get(co, "hide") /\ co_flags_get(co, "hide_database")
                 THEN <<", hide-database-auto-completion">> ELSE <<>>)
             \o Cat([k \in 1..Len(co.co_callbacks) |->
                       LET cc == co.co_callbacks[k] IN
                       IF cc.cc_fn_str # NullStr
                       THEN <<", ", cc.cc_fn_str, "(">>
                            \o (IF ~cc.cc_cvec.null
                                THEN Join([i \in 1..Len(cc.cc_cvec.cvs) |->
                                              cv2cbuf(cc.cc_cvec.cvs[i])],
                                          Len(cc.cc_cvec.cvs), ",")
                                ELSE <<>>)
                            \o <<")">>
                       ELSE <<>>],
                    Len(co.co_callbacks))
        ELSE <<>>)
    \o (IF co_terminal(co) THEN <<";">> ELSE <<>>)

\* What co2cbuf writes between the object's own text and its children.
co2cbuf_open_noset(co) ==
    LET pt == co_pt_get(co) IN
    IF pt_len_get(pt) > 1 THEN <<"{", "\n">>
    ELSE IF pt_len_get(pt) = 1 /\ pt_vec_i_get(pt, 0) # NullObj
            /\ pt_vec_i_get(pt, 0).co_type # "CO_EMPTY"
         THEN <<" ">>
         ELSE <<"\n">>

co2cbuf_open(co) ==
    LET pt == co_pt_get(co) IN
    IF pt_len_get(pt) > 1
    THEN (IF co_sets_get(co) THEN <<"@">> ELSE <<>>) \o <<"{", "\n">>
    ELSE IF pt_len_get(pt) = 1 /\ pt_vec_i_get(pt, 0) # NullObj
            /\ pt_vec_i_get(pt, 0).co_type # "CO_EMPTY"
         THEN <<" ">>
         ELSE <<"\n">>

\* What co2cbuf writes after the children.
co2cbuf_close(co, marginal) ==
    IF pt_len_get(co_pt_get(co)) > 1 THEN Spaces(marginal) \o <<"}", "\n">> ELSE <<>>

RECURSIVE co2cbuf(_, _, _)
RECURSIVE pt2cbuf_loop(_, _, _, _)

\* The for loop of pt2cbuf from index i on.
pt2cbuf_loop(pt, i, marginal, brief) ==
    IF i >= pt_len_get(pt) THEN <<>>
    ELSE LET co == pt_vec_i_get(pt, i) IN
         (IF co = NullObj \/ co.co_type = "CO_EMPTY" THEN <<>>
          ELSE (IF pt_len_get(pt) > 1 THEN Spaces(marginal) ELSE <<>>)
               \o co2cbuf(co, marginal, brief))
         \o pt2cbuf_loop(pt, i + 1, marginal, brief)

pt2cbuf(pt, marginal, brief) == pt2cbuf_loop(pt, 0, marginal, brief)

co2cbuf(co, marginal, brief) ==
    co2cbuf_own(co, brief)
    \o co2cbuf_open(co)
    \o pt2cbuf(co_pt_get(co), marginal + 3, brief)
    \o co2cbuf_close(co, marginal)

\* What a call of pt_print or co_print returns and leaves behind: the text
\* written to f, the number of writes to f, the buffers allocated and freed.
\* cbuf_new gives a buffer (ok) or NULL.
\* The paths both functions have: cb = cbuf_new() is a buffer (ok) or NULL
\* and then "goto done"; the rendering into cb returns rv and, when rv < 0,
\* "goto done"; fprintf(f, "%s", cbuf_get(cb)) and retval = 0; at done,
\* cbuf_free(cb) if cb is not NULL.
print_path_leak(ok, rv, text) ==
    LET wrote == ok /\ rv >= 0 IN
    [retval |-> IF wrote THEN 0 ELSE -1,
     f      |-> IF wrote THEN text ELSE <<>>,
     writes |-> IF wrote THEN 1 ELSE 0,
     news   |-> IF ok THEN 1 ELSE 0,
     frees  |-> IF wrote THEN 1 ELSE 0]

print_path(ok, rv, text) ==
    LET wrote == ok /\ rv >= 0 IN
    [retval |-> IF wrote THEN 0 ELSE -1,
     f      |-> IF wrote THEN text ELSE <<>>,
     writes |-> IF wrote THEN 1 ELSE 0,
     news   |-> IF ok THEN 1 ELSE 0,
     frees  |-> IF ok THEN 1 ELSE 0]

\* What pt2cbuf and co2cbuf return: retval = 0 is reached on every path, as
\* co2cbuf can only fail when pt2cbuf does and pt2cbuf only when co2cbuf does.
render_retval == 0

pt_print(pt, brief, ok) == print_path(ok, render_retval, pt2cbuf(pt, 0, brief))

co_print(co, brief, ok) == print_path(ok, render_retval, co2cbuf(co, 0, brief))

\* No tree held and no call made.
NoCall == [retval |-> 0, f |-> <<>>, writes |-> 0, news |-> 0, frees |-> 0]
NoPrint == [pt |-> <<>>, op |-> "none", co |-> NullObj, brief |-> FALSE, res |-> NoCall]

(***************************************************************************)
(* The calls a program makes                                               *)
(***************************************************************************)
\* A program is described by c: env is its allocator ("ok" never fails,
\* "oom" may fail a request for more memory), hs the handles it uses, srcs
\* the cg_vars of its own (indices of Sources) it appends copies of, alias
\* whether it also appends copies of elements of its vectors, maxlen the
\* longest vector it builds.
OneVector == [env |-> "ok", hs |-> {"v"}, srcs |-> 1..Len(Sources),
              alias |-> TRUE, maxlen |-> MaxLen]
TwoVectors == [env |-> "ok", hs |-> Handles, srcs |-> {1},
               alias |-> FALSE, maxlen |-> MaxDupLen]

Grow(env) == IF env = "oom" THEN {"inplace", "move", "fail"} ELSE {"inplace", "move"}
Alloc(env) == IF env = "oom" THEN {"ok", "fail"} ELSE {"ok"}
Copy(env) == IF env = "oom" THEN BOOLEAN ELSE {TRUE}
\* A realloc to a smaller size does not fail.
Shrink == {"inplace", "move"}
UB == {"crash", "continue"}
DanglingRead == {"crash", "stale", "wild"}

\* The element references a caller can hold: NULL, and cells of the blocks
\* in use (a reference to anything else is, to cvec_del, as NULL is: an
\* address that is no slot's).
Refs(c) ==
    {NullPtr} \cup {[blk |-> b, idx |-> i] :
                        b \in {x \in 1..MaxBlk : arrs[x].live}, i \in 0..c.maxlen - 1}

\* The cells allocated in all array blocks; the heap holds MaxCells.
Cells(m) == LET RECURSIVE sum(_)
                sum(b) == IF b = 0 THEN 0 ELSE Len(m.arrs[b].cells) + sum(b - 1)
            IN sum(MaxBlk)

RECURSIVE Ascending(_)
Ascending(S) == IF S = {} THEN <<>> ELSE <<Min(S)>> \o Ascending(S \ {Min(S)})

Range(f) == {f[i] : i \in DOMAIN f}
Pos(seq, x) == IF x = 0 THEN 0 ELSE CHOOSE i \in 1..Len(seq) : seq[i] = x

\* Block numbers carry no meaning between calls (the caller's references
\* are drawn anew at each call), so a state is kept up to a renaming of its
\* blocks: the blocks the vectors refer to first, v's before d's, then the
\* blocks nothing refers to.
Canon(m) ==
    LET a == m.cvv["v"].vr_vec
        b == m.cvv["d"].vr_vec
        refd == (IF a # 0 THEN <<a>> ELSE <<>>) \o (IF b # 0 /\ b # a THEN <<b>> ELSE <<>>)
        order == refd \o Ascending({x \in 1..MaxBlk : m.arrs[x].live} \ Range(refd))
        na == m.cvv["v"].vr_name
        nb == m.cvv["d"].vr_name
        nrefd == (IF na # 0 THEN <<na>> ELSE <<>>)
                    \o (IF nb # 0 /\ nb # na THEN <<nb>> ELSE <<>>)
        norder == nrefd \o Ascending({x \in 1..MaxStr : m.strs[x].live} \ Range(nrefd))
    IN [m EXCEPT
          !.arrs = [i \in 1..MaxBlk |-> IF i <= Len(order) THEN m.arrs[order[i]] ELSE FreeArr],
          !.strs = [i \in 1..MaxStr |-> IF i <= Len(norder) THEN m.strs[norder[i]] ELSE FreeStr],
          !.cvv = [h \in Handles |->
                     [m.cvv[h] EXCEPT !.vr_vec = Pos(order, @), !.vr_name = Pos(norder, @)]]]

\* The exploration has room for n more cells in one more block.
Room(n) == Cells(Mem) + n <= MaxCells /\ FreeBlks(Mem) # {}

Rc(m, ok) == IF m.fault THEN "crash" ELSE IF ok THEN "ok" ELSE "none"

Commit(m, l) ==
    LET n == Canon(m)
    IN /\ cvv' = n.cvv
       /\ arrs' = n.arrs
       /\ strs' = n.strs
       /\ fault' = n.fault
       /\ last' = l
       /\ it' = NoIter
       /\ pr' = pr

Init ==
    /\ cvv = [h \in Handles |-> NoVec]
    /\ arrs = [b \in 1..MaxBlk |-> FreeArr]
    /\ strs = [b \in 1..MaxStr |-> FreeStr]
    /\ fault = FALSE
    /\ lost = 0
    /\ last = Call("init", "ok")
    /\ it = NoIter
    /\ pr = NoPrint

\* v = cvec_new(len)
Create(c) ==
    \E len \in 0..c.maxlen, chs \in Alloc(c.env), ch \in Alloc(c.env) :
        /\ ~fault /\ ~cvv["v"].live
        /\ Room(len)
        /\ LET r == cvec_new(Mem, "v", len, chs, ch)
           IN Commit(r.m, Call("Create", Rc(r.m, r.ok)))
        /\ UNCHANGED lost

\* cvec_free(h); h = NULL
Destroy(c) ==
    \E h \in c.hs :
        /\ ~fault
        /\ LET m == cvec_free(Mem, h) IN Commit(m, Call("Destroy", Rc(m, TRUE)))
        /\ UNCHANGED lost

\* cvec_reset(h)
Reset(c) ==
    \E h \in c.hs :
        /\ ~fault
        /\ LET m == cvec_reset(Mem, h)
           IN Commit(m, Call("Reset", Rc(m, m.cvv[h] # cvv[h])))
        /\ UNCHANGED lost

\* cvec_add(h, type)
Add(c) ==
    \E h \in c.hs, type \in Types, ch \in Grow(c.env) :
        /\ ~fault /\ cvv[h].vr_len < c.maxlen
        /\ Room(1)
        /\ LET r == cvec_add(Mem, h, type, ch)
           IN Commit(r.m, Call("Add", Rc(r.m, r.ret # NullPtr)))
        /\ UNCHANGED lost

\* The sources a caller can pass to cvec_append_var(h, .): NULL, a cg_var of
\* its own, or an element of a vector it holds.
SrcArgs(c) ==
    {[k |-> k, p |-> NullPtr] : k \in {0} \cup c.srcs}
        \cup (IF c.alias
              THEN {[k |-> 0, p |-> cvec_i(Mem, g, i)] : g \in c.hs, i \in 0..c.maxlen - 1}
              ELSE {})

\* cvec_append_var(h, src)
AppendCopy(c) ==
    \E h \in c.hs, src \in SrcArgs(c), ch \in Grow(c.env), ok \in Copy(c.env) :
        \E chd \in (IF ok THEN {"inplace"} ELSE Shrink),
           dr \in (IF src.k = 0 /\ ch = "move" THEN DanglingRead ELSE {"crash"}) :
            /\ ~fault /\ cvv[h].vr_len < c.maxlen
            /\ Room(1)
            /\ LET r == cvec_append_var(Mem, h, src, ch, ok, chd, dr)
                   grown == cvec_add(Mem, h, cv_type_get(SrcVal(Mem, src)), ch).ret # NullPtr
               IN Commit(r.m, Call("AppendCopy",
                                   IF ~ok /\ grown /\ ~r.m.fault /\ r.ret = NullPtr
                                        /\ cvv[h].live /\ src # [k |-> 0, p |-> NullPtr]
                                   THEN "rollback" ELSE Rc(r.m, r.ret # NullPtr)))
            /\ UNCHANGED lost

\* cvec_del(h, del)
RemoveByIdentity(c) ==
    \E h \in c.hs, del \in Refs(c) :
      \E ch \in (IF del.blk = cvv[h].vr_vec THEN Shrink ELSE {"inplace"}) :
        /\ ~fault
        /\ LET r == cvec_del(Mem, h, del, ch)
           IN Commit(r.m, Call("RemoveByIdentity", Rc(r.m, cvec_len(r.m, h) < cvec_len(Mem, h))))
        /\ UNCHANGED lost

\* cvec_del_i(h, i)
RemoveByIndex(c) ==
    \E h \in c.hs :
      \E i \in -1..cvv[h].vr_len + 1 :
       \E ub \in (IF i < 0 \/ i = cvv[h].vr_len THEN UB ELSE {"crash"}) :
        /\ ~fault
        /\ LET r == cvec_del_i(Mem, h, i, ub)
           IN Commit(r.m, Call("RemoveByIndex", Rc(r.m, cvec_len(r.m, h) < cvec_len(Mem, h))))
        /\ UNCHANGED lost

\* d = cvec_dup(v)
Duplicate(c) ==
    \E chs \in Alloc(c.env), ch \in Alloc(c.env), okn \in Copy(c.env),
       cf \in (IF c.env = "oom" THEN -1..MaxLen - 1 ELSE {-1}) :
        /\ ~fault /\ ~cvv["d"].live
        /\ Room(cvv["v"].vr_len)
        /\ LET r == cvec_dup(Mem, "v", "d", chs, ch, okn, cf)
           IN /\ Commit(IF r.lost THEN [r.m EXCEPT !.cvv["d"] = NoVec] ELSE r.m,
                        Call("Duplicate", Rc(r.m, r.ok)))
              /\ lost' = IF r.lost THEN lost + 1 ELSE lost

\* The names a caller can pass to cvec_name_set(h, .): NULL, a string of its
\* own, or a pointer into the name the vector has.
NameArgs(h) ==
    {NullName} \cup {Lit(s) : s \in NameLits}
        \cup (IF cvv[h].vr_name = 0 THEN {}
              ELSE {[blk |-> cvv[h].vr_name, off |-> o, lit |-> <<>>] :
                        o \in 0..Len(strs[cvv[h].vr_name].chars) - 1})

\* cvec_name_set(h, name)
NameSet(c) ==
    \E h \in c.hs, ok \in Copy(c.env) :
        \E name \in NameArgs(h) :
            /\ ~fault
            /\ LET r == cvec_name_set(Mem, h, name, ok)
               IN Commit(r.m, Call("NameSet", Rc(r.m, name = NullName \/ r.ret # 0)))
            /\ UNCHANGED lost

\* A program that builds, changes and destroys one vector.
Next ==
    \/ Create(OneVector)
    \/ Destroy(OneVector)
    \/ Reset(OneVector)
    \/ Add(OneVector)
    \/ AppendCopy(OneVector)
    \/ RemoveByIdentity(OneVector)
    \/ RemoveByIndex(OneVector)

Spec == Init /\ [][Next]_vars

\* A program that also names its vector, duplicates it and changes both.
NextDup ==
    \/ Create(TwoVectors)
    \/ Destroy(TwoVectors)
    \/ Reset(TwoVectors)
    \/ AppendCopy(TwoVectors)
    \/ RemoveByIdentity(TwoVectors)
    \/ RemoveByIndex(TwoVectors)
    \/ Duplicate(TwoVectors)
    \/ NameSet(TwoVectors)

SpecDup == Init /\ [][NextDup]_vars

\* cv = NULL before a loop over h with cvec_each or, skipping the first
\* element, with cvec_each1
IterBegin(c) ==
    \E h \in c.hs, skip \in BOOLEAN :
        /\ ~fault
        /\ it' = [NoIter EXCEPT !.on = TRUE, !.h = h, !.skip = skip]
        /\ UNCHANGED <<cvv, arrs, strs, fault, lost, last, pr>>

\* cv = cvec_each(h, cv) (cvec_each1(h, cv)) as the loop's test; no call
\* that changes the vector was made since the loop began
IterNext ==
    /\ ~fault /\ it.on /\ ~it.done
    /\ LET cv == IF it.skip THEN cvec_each1(Mem, it.h, it.prev)
                 ELSE cvec_each(Mem, it.h, it.prev)
       IN it' = IF cv = NullPtr THEN [it EXCEPT !.done = TRUE]
                ELSE [it EXCEPT !.prev = cv, !.n = @ + 1]
    /\ UNCHANGED <<cvv, arrs, strs, fault, lost, last, pr>>

\* A program that builds and changes one vector and loops over it.
IterVector == [OneVector EXCEPT !.srcs = {1}, !.alias = FALSE]

NextIter ==
    \/ Create(IterVector)
    \/ Destroy(IterVector)
    \/ Reset(IterVector)
    \/ Add(IterVector)
    \/ AppendCopy(IterVector)
    \/ RemoveByIdentity(IterVector)
    \/ RemoveByIndex(IterVector)
    \/ IterBegin(IterVector)
    \/ IterNext

SpecIter == Init /\ [][NextIter]_vars

\* A program that names and renames one short vector; its allocator may fail.
NameVector ==
    [env |-> "oom", hs |-> {"v"}, srcs |-> {1}, alias |-> FALSE, maxlen |-> MaxNameLen]

NextName ==
    \/ Create(NameVector)
    \/ Destroy(NameVector)
    \/ Reset(NameVector)
    \/ AppendCopy(NameVector)
    \/ NameSet(NameVector)

SpecName == Init /\ [][NextName]_vars

\* A program with one vector whose allocator may fail.
OneVectorOOM ==
    [env |-> "oom", hs |-> {"v"}, srcs |-> {1}, alias |-> TRUE, maxlen |-> MaxOomLen]

NextOOM ==
    \/ Create(OneVectorOOM)
    \/ Destroy(OneVectorOOM)
    \/ Reset(OneVectorOOM)
    \/ Add(OneVectorOOM)
    \/ AppendCopy(OneVectorOOM)
    \/ RemoveByIdentity(OneVectorOOM)
    \/ RemoveByIndex(OneVectorOOM)

SpecOOM == Init /\ [][NextOOM]_vars

(***************************************************************************)
(* Programs that print a parse-tree.  The tree is built by the compiler of *)
(* cligen and only read here: a program starts with some tree and calls    *)
(* pt_print on it and co_print on its objects.                             *)
(***************************************************************************)
\* Objects without children.
Terminal(co) == [co EXCEPT !.terminal = TRUE]
Int32(text) == [var_type |-> "CGV_INT32", text |-> text]

Leaves ==
    { Terminal(Obj("CO_COMMAND", "a")),
      Obj("CO_COMMAND", "b"),
      Obj("CO_COMMAND", NullStr),
      [Obj("CO_COMMAND", "c") EXCEPT !.co_choice = <<"c", "|", "d">>],
      [Terminal(Obj("CO_COMMAND", "c")) EXCEPT !.co_choice = <<"e">>],
      [Terminal(Obj("CO_COMMAND", "h")) EXCEPT
          !.co_helpvec = Vec(<<Cv("help"), Cv("more")>>), !.hide = TRUE,
          !.co_callbacks = <<[cc_fn_str |-> "cb", cc_cvec |-> Vec(<<Cv("1"), Cv("2")>>)],
                             [cc_fn_str |-> NullStr, cc_cvec |-> NullVec],
                             [cc_fn_str |-> "fn", cc_cvec |-> NullVec]>>],
      [Obj("CO_COMMAND", "h") EXCEPT
          !.co_helpvec = Vec(<<Cv("help")>>), !.hide_database = TRUE],
      [Terminal(Obj("CO_COMMAND", "h")) EXCEPT !.hide = TRUE, !.hide_database = TRUE],
      Terminal(Obj("CO_REFERENCE", "r")),
      Obj("CO_REFERENCE", NullStr),
      Terminal(Obj("CO_VARIABLE", "x")),
      [Terminal(Obj("CO_VARIABLE", "x")) EXCEPT
          !.co_vtype = "int32",
          !.co_rangecvv_low = <<Int32("1")>>, !.co_rangecvv_upp = <<Int32("10")>>],
      [Obj("CO_VARIABLE", "x") EXCEPT
          !.co_vtype = "uint8",
          !.co_rangecvv_low = <<EmptyCv, Int32("20")>>,
          !.co_rangecvv_upp = <<Int32("10"), Int32("30")>>],
      [Terminal(Obj("CO_VARIABLE", "y")) EXCEPT
          !.co_rangecvv_low = <<EmptyCv>>, !.co_rangecvv_upp = <<Int32("8")>>,
          !.co_show = "name"],
      [Terminal(Obj("CO_VARIABLE", "y")) EXCEPT
          !.co_rangecvv_low = <<Int32("2")>>, !.co_rangecvv_upp = <<Int32("8")>>],
      [Obj("CO_VARIABLE", "z") EXCEPT
          !.co_expand_fn_str = "exp", !.co_expand_fn_vec = Vec(<<Cv("arg")>>),
          !.co_regex = <<"[a-z]", "[0-9]">>, !.co_translate_fn_str = "tr",
          !.co_helpvec = Vec(<<Cv("help")>>)],
      [Terminal(Obj("CO_VARIABLE", "x")) EXCEPT
          !.co_vtype = "int32", !.co_choice = <<"c", "|", "d">>,
          !.co_rangecvv_low = <<Int32("1")>>, !.co_rangecvv_upp = <<Int32("10")>>],
      [Obj("CO_VARIABLE", "x") EXCEPT !.co_choice = <<"e">>],
      Obj("CO_EMPTY", NullStr) }

\* Objects that are given children.
Heads ==
    { Obj("CO_COMMAND", "a"),
      [Terminal(Obj("CO_COMMAND", "s")) EXCEPT !.sets = TRUE],
      [Obj("CO_VARIABLE", "x") EXCEPT !.co_helpvec = Vec(<<Cv("help")>>)] }

\* The parse-trees of 1 to MaxKids slots holding objects of S.
Lists(S) == UNION {[1..n -> S] : n \in 1..MaxKids}

\* The heads with the children lists of L.
Over(L) == {[h EXCEPT !.pt = l] : h \in Heads, l \in L}

\* Children that are leaves, an empty object and a NULL slot among them.
Kids0 == {Terminal(Obj("CO_COMMAND", "a")), Terminal(Obj("CO_VARIABLE", "x")),
          Obj("CO_EMPTY", NullStr), NullObj}

\* Children with children of their own: a block, an inline continuation.
Kids1 ==
    {Terminal(Obj("CO_COMMAND", "a")), Obj("CO_EMPTY", NullStr),
     [Obj("CO_COMMAND", "b") EXCEPT
         !.pt = <<Terminal(Obj("CO_COMMAND", "c")), Terminal(Obj("CO_COMMAND", "d"))>>],
     [Obj("CO_COMMAND", "b") EXCEPT !.pt = <<Terminal(Obj("CO_COMMAND", "c"))>>],
     [Obj("CO_COMMAND", "b") EXCEPT !.pt = <<Obj("CO_EMPTY", NullStr)>>]}

Objs == Leaves \cup Over(Lists(Kids0)) \cup Over(Lists(Kids1))

\* The parse-trees a program prints.
Trees == {<<>>} \cup Lists(Kids0) \cup Lists(Kids1) \cup {<<co>> : co \in Objs}
         \cup {<<co, Terminal(Obj("CO_COMMAND", "a"))>> : co \in Over(Lists(Kids1))}

\* The objects of a parse-tree, at any depth.
RECURSIVE ObjsOf(_)
ObjsOf(pt) ==
    UNION {IF pt[i] = NullObj THEN {} ELSE {pt[i]} \cup ObjsOf(pt[i].pt) : i \in 1..Len(pt)}

InitPrint ==
    /\ cvv = [h \in Handles |-> NoVec]
    /\ arrs = [b \in 1..MaxBlk |-> FreeArr]
    /\ strs = [b \in 1..MaxStr |-> FreeStr]
    /\ fault = FALSE
    /\ lost = 0
    /\ last = Call("init", "ok")
    /\ it = NoIter
    /\ pr \in {[NoPrint EXCEPT !.pt = pt] : pt \in Trees}

\* pt_print(f, pt, brief)
RenderTree ==
    \E brief \in BOOLEAN, ok \in BOOLEAN :
        /\ pr' = [pt |-> pr.pt, op |-> "pt_print", co |-> NullObj, brief |-> brief,
                  res |-> pt_print(pr.pt, brief, ok)]
        /\ UNCHANGED <<cvv, arrs, strs, fault, lost, last, it>>

\* co_print(f, co, brief), for an object co of the tree
RenderNode ==
    \E co \in ObjsOf(pr.pt), brief \in BOOLEAN, ok \in BOOLEAN :
        /\ pr' = [pt |-> pr.pt, op |-> "co_print", co |-> co, brief |-> brief,
                  res |-> co_print(co, brief, ok)]
        /\ UNCHANGED <<cvv, arrs, strs, fault, lost, last, it>>

NextPrint ==
    \/ RenderTree
    \/ RenderNode

SpecPrint == InitPrint /\ [][NextPrint]_vars

(***************************************************************************)
(* What a caller observes of a vector                                      *)
(***************************************************************************)
\* The elements of h as ElementAt reads them, first to last.
Elems(m, h) == [k \in 1..cvec_len(m, h) |-> Deref(m, cvec_i(m, h, k - 1))]

\* The number of cells of the storage h holds.
Allocated(m, h) ==
    IF m.cvv[h].vr_vec = 0 \/ ~m.arrs[m.cvv[h].vr_vec].live THEN 0
    ELSE Len(m.arrs[m.cvv[h].vr_vec].cells)

\* The name of h as cvec_name_get returns it, read as text.
NameText(m, h) ==
    IF cvec_name_get(m, h) = 0 THEN <<NullStr>>
    ELSE CharsOf(m, [blk |-> cvec_name_get(m, h), off |-> 0, lit |-> <<>>])

\* All of it: length, name and elements.
View(m, h) == [len |-> cvec_len(m, h), name |-> NameText(m, h), elems |-> Elems(m, h)]

\* seq without its k-th element
RemoveAt(seq, k) == [j \in 1..Len(seq) - 1 |-> IF j < k THEN seq[j] ELSE seq[j + 1]]

\* The indices a caller may pass, in and out of range.
Indices == -2..MaxLen + 1

(***************************************************************************)
(* C1.  The length of a vector is always the number of cells allocated for *)
(* it: whatever calls were made, RemoveByIndex included, cvec_len equals   *)
(* the size of the storage the vector holds.                               *)
(* cvec_del_i takes the element out and decrements vr_len without the      *)
(* realloc that cvec_del does, so the statement fails after it.            *)
(***************************************************************************)
C1_LenIsAllocated ==
    \A h \in Handles : cvv[h].live /\ ~fault => cvec_len(Mem, h) = Allocated(Mem, h)

(***************************************************************************)
(* C2.  An Append that succeeds makes the vector one longer; a             *)
(* RemoveByIndex with a valid index (0 <= i < len) makes it one shorter,   *)
(* returns the new length and does not fault.                              *)
(***************************************************************************)
C2_AppendRemoveLength ==
    \A h \in Handles :
        /\ \A type \in Types, ch \in Grow("ok") :
              LET r == cvec_add(Mem, h, type, ch)
              IN r.ret # NullPtr =>
                    /\ cvec_len(r.m, h) = cvec_len(Mem, h) + 1
                    /\ r.ret = cvec_i(r.m, h, cvec_len(Mem, h))
        /\ \A i \in Indices, ub \in UB :
              LET r == cvec_del_i(Mem, h, i, ub)
              IN 0 <= i /\ i < cvec_len(Mem, h) =>
                    /\ cvec_len(r.m, h) = cvec_len(Mem, h) - 1
                    /\ r.ret = cvec_len(r.m, h)
                    /\ r.m.fault = Mem.fault

\* A vector that was appended to and then had an element removed by index:
\* two elements left in storage for three.
C2_Witness ==
    /\ last = Call("RemoveByIndex", "ok")
    /\ cvv["v"].live
    /\ cvec_len(Mem, "v") = 2
    /\ Allocated(Mem, "v") = 3

(***************************************************************************)
(* C3.  ElementAt returns the i-th element for 0 <= i < len and "not       *)
(* found" (NULL) for every other index, negative ones included; it never   *)
(* returns a reference outside the vector's storage; a null vector has no  *)
(* elements.                                                               *)
(* cvec_i only tests i < vr_len, so a negative index yields &vr_vec[i].    *)
(***************************************************************************)
C3_ElementAtInRange ==
    \A h \in Handles, i \in Indices :
        LET p == cvec_i(Mem, h, i)
        IN ~fault =>
              /\ (cvv[h].live /\ 0 <= i /\ i < cvec_len(Mem, h))
                    => p = [blk |-> cvv[h].vr_vec, idx |-> i]
              /\ (~cvv[h].live \/ i < 0 \/ i >= cvec_len(Mem, h)) => p = NullPtr
              /\ p # NullPtr => Valid(Mem, p)

\* The sources of cvec_append_var that name a cg_var.
NonNullSrcs(c) == {src \in SrcArgs(c) : src # [k |-> 0, p |-> NullPtr]}

(***************************************************************************)
(* C4.  AppendCopy is all-or-nothing: when the slot was added and the deep *)
(* copy into it fails, the call returns NULL, the slot is taken out again  *)
(* and the vector has the length and the elements, in order, it had before *)
(* the call.                                                               *)
(***************************************************************************)
C4_AppendCopyRollback ==
    \A h \in Handles, src \in NonNullSrcs(OneVectorOOM) :
      \A ch \in Grow("oom"), chd \in Shrink, dr \in DanglingRead \ {"crash"} :
        LET r == cvec_append_var(Mem, h, src, ch, FALSE, chd, dr)
            grown == cvec_add(Mem, h, cv_type_get(SrcVal(Mem, src)), ch).ret # NullPtr
        IN cvv[h].live /\ grown =>
              /\ r.ret = NullPtr
              /\ cvec_len(r.m, h) = cvec_len(Mem, h)
              /\ Elems(r.m, h) = Elems(Mem, h)
              /\ r.m.fault = Mem.fault

\* A vector holding one copied element whose second AppendCopy has just been
\* rolled back.
C4_Witness ==
    /\ last = Call("AppendCopy", "rollback")
    /\ cvec_len(Mem, "v") = 1
    /\ Valid(Mem, cvec_i(Mem, "v", 0))
    /\ cvec_i_str(Mem, "v", 0, Segv).ret = "x"

(***************************************************************************)
(* C5.  An Append whose allocation fails is recoverable: it returns NULL   *)
(* and leaves the vector with the length it had and with the elements it   *)
(* had readable through ElementAt; the storage is not lost.                *)
(* cvec_add assigns realloc's result to vr_vec before it tests it, so on   *)
(* failure vr_vec is NULL, vr_len is unchanged and the old block leaks.    *)
(***************************************************************************)
C5_AppendFailureRecoverable ==
    [][(last' = Call("Add", "none") /\ cvv["v"].live)
        => /\ cvec_len(Mem, "v")' = cvec_len(Mem, "v")
           /\ Elems(Mem, "v")' = Elems(Mem, "v")
           /\ \A i \in 0..cvec_len(Mem, "v") - 1 :
                 Valid(Mem, cvec_i(Mem, "v", i)) => Valid(Mem, cvec_i(Mem, "v", i))'
       ]_vars

\* The element references a caller can pass to cvec_del.
AnyRef == {[blk |-> b, idx |-> i] : b \in 0..MaxBlk, i \in -1..MaxLen}

\* Whether del refers to one of the slots of h.
IsSlot(m, h, del) ==
    /\ m.cvv[h].live /\ del.blk # 0 /\ del.blk = m.cvv[h].vr_vec
    /\ 0 <= del.idx /\ del.idx < cvec_len(m, h)

(***************************************************************************)
(* C6.  RemoveByIdentity returns the length after the call.  On an empty   *)
(* vector it changes nothing and returns 0; given a reference that is not  *)
(* a slot of the vector it changes nothing and returns the length; given   *)
(* the slot at index i it removes that element: those before i stay, those *)
(* after i move one place left in order, the length is one less.           *)
(***************************************************************************)
C6_RemoveByIdentity ==
    \A h \in Handles, del \in AnyRef, ch \in Shrink :
        LET r == cvec_del(Mem, h, del, ch)
        IN /\ r.ret = cvec_len(r.m, h)
           /\ cvec_len(Mem, h) = 0 => r.m = Mem /\ r.ret = 0
           /\ ~IsSlot(Mem, h, del) => r.m = Mem /\ r.ret = cvec_len(Mem, h)
           /\ IsSlot(Mem, h, del) =>
                 /\ Elems(r.m, h) = RemoveAt(Elems(Mem, h), del.idx + 1)
                 /\ cvec_len(r.m, h) = cvec_len(Mem, h) - 1
                 /\ r.m.fault = Mem.fault

\* A vector that has just lost one of three elements to cvec_del: two left,
\* in storage for two.
C6_Witness ==
    /\ last = Call("RemoveByIdentity", "ok")
    /\ cvec_len(Mem, "v") = 2
    /\ Allocated(Mem, "v") = 2

\* The other vector of the two.
Other(h) == IF h = "v" THEN "d" ELSE "v"

\* The memories a call on h can leave: an Append, an AppendCopy (of a cg_var
\* of the caller's or of an element of either vector), a removal by
\* reference or by index, a rename, a Reset.
After(h) ==
    {cvec_add(Mem, h, type, ch).m : type \in Types, ch \in Grow("ok")}
    \cup {cvec_append_var(Mem, h, src, ch, TRUE, "inplace", dr).m :
            src \in NonNullSrcs([TwoVectors EXCEPT !.alias = TRUE]),
            ch \in Grow("ok"), dr \in DanglingRead}
    \cup {cvec_del(Mem, h, del, ch).m : del \in AnyRef, ch \in Shrink}
    \cup {cvec_del_i(Mem, h, i, ub).m : i \in Indices, ub \in UB}
    \cup {cvec_name_set(Mem, h, name, TRUE).m : name \in NameArgs(h)}
    \cup {cvec_reset(Mem, h)}

(***************************************************************************)
(* C7.  Duplicate(v) returns a vector of the same length, the same name    *)
(* text and equal elements that shares no storage with v: an Append, a     *)
(* removal, a rename or a Reset of either of the two leaves the length,    *)
(* the name and the elements of the other as they were.                    *)
(***************************************************************************)
C7_DuplicateIndependent ==
    /\ (cvv["v"].live /\ ~cvv["d"].live /\ ~fault /\ Room(cvec_len(Mem, "v"))
            /\ FreeStrs(Mem) # {})
        => LET r == cvec_dup(Mem, "v", "d", "ok", "ok", TRUE, -1)
           IN /\ r.ok /\ ~r.m.fault
              /\ View(r.m, "d") = View(Mem, "v")
              /\ View(r.m, "v") = View(Mem, "v")
              /\ r.m.cvv["d"].vr_vec = 0 \/ r.m.cvv["d"].vr_vec # r.m.cvv["v"].vr_vec
              /\ r.m.cvv["d"].vr_name = 0 \/ r.m.cvv["d"].vr_name # r.m.cvv["v"].vr_name
    /\ (cvv["v"].live /\ cvv["d"].live /\ ~fault)
        => \A h \in Handles : \A m \in After(h) : View(m, Other(h)) = View(Mem, Other(h))

\* A named vector of two elements and the copy cvec_dup has just made of it.
C7_Witness ==
    /\ last = Call("Duplicate", "ok")
    /\ cvec_len(Mem, "d") = 2
    /\ cvv["d"].vr_name # 0
    /\ Elems(Mem, "d")[2].var_string = "x"

(***************************************************************************)
(* C8.  Round trip: after a successful AppendCopy of any string-typed      *)
(* source, StringAt of the new last index is the source's string, and the  *)
(* elements the vector had are unchanged and in order.                     *)
(* A source that is an element of the vector itself is read by cv_cp after *)
(* cvec_add's realloc may have moved the array (see C24): the copy is then *)
(* of freed memory.                                                        *)
(***************************************************************************)
C8_AppendCopyRoundTrip ==
    \A h \in Handles, src \in NonNullSrcs(OneVector) :
      \A ch \in Grow("ok"), dr \in DanglingRead :
        LET r == cvec_append_var(Mem, h, src, ch, TRUE, "inplace", dr)
            n == cvec_len(Mem, h)
        IN (~fault /\ cv_isstring(cv_type_get(SrcVal(Mem, src))) /\ r.ret # NullPtr) =>
              /\ cvec_len(r.m, h) = n + 1
              /\ cvec_i_str(r.m, h, cvec_len(r.m, h) - 1, Segv)
                    = [ret |-> cv_string_get(SrcVal(Mem, src)), fault |-> FALSE]
              /\ SubSeq(Elems(r.m, h), 1, n) = Elems(Mem, h)

\* The indices (from 1) of the elements of h that name selects: the unnamed
\* ones for NULL, else the ones so named.
Matches(m, h, name) ==
    {k \in 1..cvec_len(m, h) :
        IF name = NullStr THEN Elems(m, h)[k].var_name = NullStr
        ELSE Elems(m, h)[k].var_name # NullStr /\ Elems(m, h)[k].var_name = name}

\* The first element of h among those at the indices S, or NULL.
First(m, h, S) == IF S = {} THEN NullPtr ELSE cvec_i(m, h, Min(S) - 1)

(***************************************************************************)
(* C9.  FindByName returns the first element in storage order whose name   *)
(* is the one given, NULL when there is none; given no name (NULL) it      *)
(* returns the first unnamed element, NULL when all are named.  A named    *)
(* element never matches NULL, an unnamed one never matches a name.        *)
(***************************************************************************)
C9_FindByName ==
    \A h \in Handles, name \in Names :
        LET cv == cvec_find(Mem, h, name)
        IN /\ cv = First(Mem, h, Matches(Mem, h, name))
           /\ cv # NullPtr => (Deref(Mem, cv).var_name = NullStr <=> name = NullStr)

\* A vector <<a, unnamed, b>>: each kind of lookup has its case.
C9_Witness ==
    /\ ~fault /\ cvec_len(Mem, "v") = 3
    /\ cvec_find(Mem, "v", "a") = cvec_i(Mem, "v", 0)
    /\ cvec_find(Mem, "v", NullStr) = cvec_i(Mem, "v", 1)
    /\ cvec_find(Mem, "v", "b") = cvec_i(Mem, "v", 2)
    /\ cvec_find(Mem, "v", "c") = NullPtr

\* What strcmp with a NULL argument may do.
StrcmpNull == {"crash", "eq", "ne"}

\* The indices of the elements of h of one class (constants or variables).
OfClass(m, h, const) == {k \in 1..cvec_len(m, h) : Elems(m, h)[k].var_const = const}

(***************************************************************************)
(* C10.  FindKeyword and FindVariable return what FindByName returns on    *)
(* the elements that are constants (resp. are not): the first of that      *)
(* class with the name, for every name FindByName accepts, NULL (the first *)
(* unnamed element of the class) included.                                 *)
(* Both loops skip unnamed elements and hand name to strcmp unchecked.     *)
(***************************************************************************)
C10_FindOfClass ==
    \A h \in Handles, name \in Names, ub \in StrcmpNull :
        ~fault =>
          /\ cvec_find_keyword(Mem, h, name, ub)
                = [ret |-> First(Mem, h, Matches(Mem, h, name) \cap OfClass(Mem, h, TRUE)),
                   fault |-> FALSE]
          /\ cvec_find_var(Mem, h, name, ub)
                = [ret |-> First(Mem, h, Matches(Mem, h, name) \cap OfClass(Mem, h, FALSE)),
                   fault |-> FALSE]

(***************************************************************************)
(* C11.  StringAt returns the element's string when the index is in range  *)
(* and the element there is string-typed; it returns NULL when the index   *)
(* is out of range and when the element is of another type.                *)
(* A negative index is out of range, but cvec_i hands out &vr_vec[i] for   *)
(* it (see C3) and cvec_i_str reads a string from there.                   *)
(***************************************************************************)
C11_StringAt ==
    \A h \in Handles, i \in Indices, w \in WildRead :
        ~fault =>
          cvec_i_str(Mem, h, i, w)
            = [ret |-> IF 0 <= i /\ i < cvec_len(Mem, h)
                            /\ cv_isstring(Elems(Mem, h)[i + 1].var_type)
                       THEN Elems(Mem, h)[i + 1].var_string
                       ELSE NullStr,
               fault |-> FALSE]

\* The index a loop starts at, and the number of elements it is to yield.
IterFirst == IF it.skip THEN 1 ELSE 0
IterCount == IF cvec_len(Mem, it.h) > IterFirst THEN cvec_len(Mem, it.h) - IterFirst ELSE 0

(***************************************************************************)
(* C12.  Without a change of the vector in between, cvec_each started with *)
(* NULL and fed its own result yields the elements at 0, 1, ..., len-1 in  *)
(* that order, each once, and then NULL: the n-th element a loop has got   *)
(* is the one at index n-1, a loop never gets more than len elements, and  *)
(* it has got len of them when NULL comes (at once for an empty or a null  *)
(* vector).  cvec_each1 does the same from index 1 and yields nothing when *)
(* len <= 1.                                                               *)
(***************************************************************************)
C12_Iterate ==
    it.on =>
      /\ it.n <= IterCount
      /\ it.n >= 1 => /\ it.prev = cvec_i(Mem, it.h, IterFirst + it.n - 1)
                      /\ Valid(Mem, it.prev)
      /\ it.done => it.n = IterCount

\* A loop over a vector of MaxLen elements that has ended, and one with
\* cvec_each1 that has just got its last element.
C12_Witness ==
    /\ it.on /\ cvec_len(Mem, it.h) = MaxLen
    /\ \/ ~it.skip /\ it.done /\ it.n = MaxLen
       \/ it.skip /\ ~it.done /\ it.n = MaxLen - 1

\* A vector as cvec_new(0) returns it: no elements, no storage, no name.
Zeroed == [NoVec EXCEPT !.live = TRUE]

(***************************************************************************)
(* C13.  Reset is idempotent.  Reset leaves any vector zeroed (length 0,   *)
(* no storage, no name) with its array and its name freed; a second Reset  *)
(* of the zeroed vector changes nothing and frees nothing again, and a     *)
(* Destroy of it only frees the struct; Reset and Destroy of a null vector *)
(* do nothing.  None of these faults.                                      *)
(***************************************************************************)
C13_ResetIdempotent ==
    \A h \in Handles :
        LET m1 == cvec_reset(Mem, h)
        IN ~fault =>
             /\ ~m1.fault
             /\ cvec_reset(m1, h) = m1
             /\ cvec_free(m1, h) = [m1 EXCEPT !.cvv[h] = NoVec]
             /\ cvv[h].live =>
                   /\ m1.cvv[h] = Zeroed
                   /\ cvv[h].vr_vec # 0 => ~m1.arrs[cvv[h].vr_vec].live
                   /\ cvv[h].vr_name # 0 => ~m1.strs[cvv[h].vr_name].live
                   /\ m1.cvv[Other(h)] = cvv[Other(h)]
                   /\ View(m1, Other(h)) = View(Mem, Other(h))
             /\ ~cvv[h].live => m1 = Mem /\ cvec_free(Mem, h) = Mem

\* A Reset has just released a vector while its duplicate, named and with
\* elements, stands.
C13_Witness ==
    /\ last = Call("Reset", "ok")
    /\ cvv["v"] = Zeroed
    /\ cvv["d"].live /\ cvv["d"].vr_name # 0 /\ cvec_len(Mem, "d") = 2

\* The text a char* argument denotes.
TextOf(m, name) == IF name = NullName THEN <<NullStr>> ELSE CharsOf(m, name)

(***************************************************************************)
(* C14.  cvec_name_set: on success the vector's name is a fresh copy of    *)
(* the text given (no name for NULL) and the name it had is freed, after   *)
(* the copy was made: given the vector's own name, or a suffix of it, the  *)
(* name becomes that text.  If the copy fails the call changes nothing.    *)
(* In no case does it change the length or the elements, or fault.         *)
(***************************************************************************)
C14_NameSet ==
    \A h \in Handles : \A name \in NameArgs(h), ok \in BOOLEAN :
        LET r == cvec_name_set(Mem, h, name, ok)
            old == cvv[h].vr_name
        IN (cvv[h].live /\ ~fault) =>
             /\ ~r.m.fault
             /\ cvec_len(r.m, h) = cvec_len(Mem, h)
             /\ Elems(r.m, h) = Elems(Mem, h)
             /\ (name = NullName \/ r.ret # 0) =>
                   /\ cvec_name_get(r.m, h) = r.ret
                   /\ NameText(r.m, h) = TextOf(Mem, name)
                   /\ r.ret # 0 => r.ret # old /\ ~strs[r.ret].live /\ r.m.strs[r.ret].live
                   /\ old # 0 => ~r.m.strs[old].live
             /\ (name # NullName /\ r.ret = 0) => r.m = Mem

\* A vector that was renamed to a suffix of its own name ("ab" to "b") and
\* whose next rename has just failed: the name is in place.
C14_Witness ==
    /\ last = Call("NameSet", "none")
    /\ cvv["v"].live
    /\ NameText(Mem, "v") = <<"b">>

(***************************************************************************)
(* What a caller observes of a print                                       *)
(***************************************************************************)
\* The call wrote the rendering of one object: co_print of it, or pt_print
\* of a parse-tree of which it is the only slot and which pt2cbuf does not
\* skip.
OneObj ==
    /\ pr.res.retval = 0
    /\ \/ pr.op = "co_print"
       \/ /\ pr.op = "pt_print"
          /\ Len(pr.pt) = 1
          /\ pr.pt[1] # NullObj
          /\ pr.pt[1].co_type # "CO_EMPTY"

\* That object.
Printed == IF pr.op = "co_print" THEN pr.co ELSE pr.pt[1]

\* a is the beginning of b.
Prefix(a, b) == Len(a) <= Len(b) /\ SubSeq(b, 1, Len(a)) = a

(***************************************************************************)
(* C15.  RenderNode serializes the given node and none of its children:    *)
(* what co_print writes for an object is what it writes for the same       *)
(* object without children, whatever children the object has.              *)
(* co_print calls co2cbuf, which goes through the children with pt2cbuf,   *)
(* so the statement fails for an object with a child that is not empty.    *)
(***************************************************************************)
C15_RenderNodeNoChildren ==
    pr.op = "co_print" /\ pr.res.retval = 0 =>
        pr.res.f = co_print([pr.co EXCEPT !.pt = <<>>], pr.brief, TRUE).f

(***************************************************************************)
(* C16.  In brief mode a command object with text t, no choice and no      *)
(* children is written as exactly t followed by ";" when it is terminal,   *)
(* and exactly t when it is not; the newline for an object without         *)
(* children is written in full mode only.                                  *)
(* co2cbuf writes that newline whatever brief is, so the brief output is   *)
(* t, ";" and a newline.                                                   *)
(***************************************************************************)
C16_BriefCommand ==
    /\ OneObj
    /\ pr.brief
    /\ Printed.co_type = "CO_COMMAND"
    /\ Printed.co_command # NullStr
    /\ Printed.co_choice = NullText
    /\ Printed.pt = <<>>
    => pr.res.f = <<Printed.co_command>> \o (IF Printed.terminal THEN <<";">> ELSE <<>>)

(***************************************************************************)
(* C17.  An object of any kind that has a choice string is written as the  *)
(* choice text in place of what its kind would give, for a command as well *)
(* as for a variable: in parentheses when the text contains "|", as it is  *)
(* otherwise.                                                              *)
(* Only cov2cbuf looks at co_choice; co2cbuf writes co_command for a       *)
(* command (and "@" co_command for a reference) without looking at it.     *)
(***************************************************************************)
ChoiceText(co) ==
    IF \E i \in 1..Len(co.co_choice) : co.co_choice[i] = "|"
    THEN <<"(">> \o co.co_choice \o <<")">>
    ELSE co.co_choice

C17_ChoiceOverrides ==
    OneObj /\ Printed.co_choice # NullText => Prefix(ChoiceText(Printed), pr.res.f)

\* The text without the spaces its lines begin with.
RECURSIVE Unindent(_, _)
Unindent(text, bol) ==
    IF text = <<>> THEN <<>>
    ELSE IF bol /\ Head(text) = " " THEN Unindent(Tail(text), TRUE)
    ELSE <<Head(text)>> \o Unindent(Tail(text), Head(text) = "\n")

\* The number of tokens c among the first n of the text.
Count(text, c, n) == Cardinality({i \in 1..n : text[i] = c})

\* Every "{" has one later "}" of its own.
Balanced(text) ==
    /\ Count(text, "{", Len(text)) = Count(text, "}", Len(text))
    /\ \A n \in 0..Len(text) : Count(text, "}", n) <= Count(text, "{", n)

\* Token i of the text is the first of its line apart from indentation, and
\* the last of its line.
OwnLine(text, i) ==
    /\ i < Len(text) /\ text[i + 1] = "\n"
    /\ \E j \in 0..i - 1 :
          /\ j = 0 \/ text[j] = "\n"
          /\ \A k \in j + 1..i - 1 : text[k] = " "

\* A child is written: it is an object, and not an empty one.
Written(co) == co # NullObj /\ co.co_type # "CO_EMPTY"

\* The child layout rule, indentation left out: the text of an object and
\* of a list of siblings.
RECURSIVE Layout(_, _)
RECURSIVE LayoutList(_, _, _)
Layout(co, brief) ==
    co2cbuf_own(co, brief)
    \o (IF Len(co.pt) > 1
        THEN (IF co.sets THEN <<"@">> ELSE <<>>) \o <<"{", "\n">>
             \o LayoutList(co.pt, 1, brief) \o <<"}", "\n">>
        ELSE IF Len(co.pt) = 1 /\ Written(co.pt[1])
        THEN <<" ">> \o Layout(co.pt[1], brief)
        ELSE <<"\n">>)

LayoutList(pt, i, brief) ==
    IF i > Len(pt) THEN <<>>
    ELSE (IF Written(pt[i]) THEN Layout(pt[i], brief) ELSE <<>>)
         \o LayoutList(pt, i + 1, brief)

(***************************************************************************)
(* C18.  Child layout of RenderTree, for every object of the tree.  With   *)
(* more than one child the children are in a brace block: "{" and a        *)
(* newline, after "@" exactly when the children are a set, each child that *)
(* is not empty beginning a line, then "}" on a line of its own; every "{" *)
(* has exactly one later "}".  With one child that is not empty the        *)
(* object's text is followed by one space and the child inline, without    *)
(* braces.  With no child or one empty child there are no braces and no    *)
(* child text.                                                             *)
(***************************************************************************)
C18_ChildLayout ==
    pr.op = "pt_print" /\ pr.res.retval = 0 =>
        LET f == pr.res.f IN
        /\ Unindent(f, TRUE) = Unindent(LayoutList(pr.pt, 1, pr.brief), TRUE)
        /\ Balanced(f)
        /\ \A i \in 1..Len(f) :
              /\ f[i] = "}" => OwnLine(f, i)
              /\ f[i] = "{" => i < Len(f) /\ f[i + 1] = "\n"
        /\ f # <<>> => f[Len(f)] = "\n"

\* A tree was printed in which a set has two children, the first with a
\* block of its own and the second with an inline child.
C18_Witness ==
    /\ pr.op = "pt_print" /\ pr.res.retval = 0
    /\ \E co \in ObjsOf(pr.pt) :
          /\ co.sets /\ Len(co.pt) = 2
          /\ Written(co.pt[1]) /\ Len(co.pt[1].pt) = 2
          /\ Written(co.pt[2]) /\ Len(co.pt[2].pt) = 1 /\ Written(co.pt[2].pt[1])
    /\ \E i \in 1..Len(pr.res.f) - 1 : pr.res.f[i] = "@" /\ pr.res.f[i + 1] = "{"

\* Token i of the text begins a line.
LineStart(text, i) == i = 1 \/ text[i - 1] = "\n"

\* The number of spaces the line beginning at token i begins with.
RECURSIVE Indent(_, _)
Indent(text, i) ==
    IF i <= Len(text) /\ text[i] = " " THEN 1 + Indent(text, i + 1) ELSE 0

\* The number of brace blocks open before token i.
Depth(text, i) == Count(text, "{", i - 1) - Count(text, "}", i - 1)

\* No newline inside the text of an object: no help text of several entries
\* is printed.
NoHelpBreak ==
    pr.brief \/ \A co \in ObjsOf(pr.pt) : Len(co.co_helpvec.cvs) <= 1

(***************************************************************************)
(* C19.  In the output of RenderTree a line inside k brace blocks begins   *)
(* with 3*k spaces and the "}" closing the k-th block with 3*(k-1), however *)
(* many inline single-child continuations lie on the path from the root.   *)
(* co2cbuf hands marginal+3 to pt2cbuf for every object, also for one with *)
(* a single inline child, which opens no block: a block below an inline    *)
(* continuation is indented 3 columns more for each continuation.          *)
(***************************************************************************)
C19_Indentation ==
    pr.op = "pt_print" /\ pr.res.retval = 0 /\ NoHelpBreak =>
        LET f == pr.res.f IN
        \A i \in 1..Len(f) :
            LineStart(f, i) =>
                LET n == Indent(f, i)
                    k == Depth(f, i)
                IN  IF i + n <= Len(f) /\ f[i + n] = "}"
                    THEN n = 3 * (k - 1)
                    ELSE n = 3 * k

\* The clause of one constraint pair of a variable of type T.
Constraint(T, low, upp) ==
    <<IF cv_isint(T) THEN " range[" ELSE " length[">>
    \o (IF low.var_type = "CGV_EMPTY" THEN <<>> ELSE <<low.text, ":">>)
    \o <<upp.text, "]">>

\* The clauses of the pairs 1..n of a variable, in stored order.
RECURSIVE Constraints(_, _)
Constraints(co, n) ==
    IF n = 0 THEN <<>>
    ELSE Constraints(co, n - 1)
         \o Constraint(co.co_vtype, co.co_rangecvv_low[n], co.co_rangecvv_upp[n])

\* The variable has none of show, expand function, regexp and translate.
Plain(co) ==
    /\ co.co_show = NullStr
    /\ co.co_expand_fn_str = NullStr
    /\ co.co_regex = <<>>
    /\ co.co_translate_fn_str = NullStr

(***************************************************************************)
(* C20.  In full mode a variable without choice string, named x and of     *)
(* type T, is written as "<x:T", then for each constraint pair in stored   *)
(* order " range[low:high]" when T is an integer type and                  *)
(* " length[low:high]" otherwise, without "low:" when the low bound is the *)
(* empty value, and, after the clauses for show, expand function, regexps  *)
(* and translate function it may have, ">".  A variable x of type int32    *)
(* with the pair (1, 10) gives "<x:int32 range[1:10]>".                     *)
(***************************************************************************)
C20_VariableFull ==
    /\ OneObj
    /\ ~pr.brief
    /\ Printed.co_type = "CO_VARIABLE"
    /\ Printed.co_choice = NullText
    => LET co == Printed
           token == cov2cbuf(co, FALSE)
           start == <<"<", co.co_command, ":", co.co_vtype>>
                    \o Constraints(co, Len(co.co_rangecvv_upp))
       IN  /\ Prefix(token, pr.res.f)
           /\ Prefix(start, token)
           /\ token[Len(token)] = ">"
           /\ \A i \in Len(start) + 1..Len(token) - 1 : token[i] # ">"
           /\ Plain(co) => token = start \o <<">">>

\* The variable x of type int32 with the pair (1, 10) was printed in full
\* mode.
C20_Witness ==
    /\ OneObj
    /\ ~pr.brief
    /\ Printed.co_type = "CO_VARIABLE"
    /\ Printed.co_choice = NullText
    /\ Printed.co_vtype = "int32"
    /\ Printed.pt = <<>>
    /\ pr.res.f = <<"<", "x", ":", "int32", " range[", "1", ":", "10", "]", ">", ";", "\n">>

\* What brief mode leaves of an object and of a list of siblings: shape,
\* kinds, literal tokens, the display name of a variable (show or, without
\* it, the command), choice strings, terminal and set markers.  Help text,
\* hide flags, callbacks, variable type, range/length pairs, expand function,
\* regexps and translate function are taken out.
RECURSIVE Shown(_)
Shown(co) ==
    IF co = NullObj THEN NullObj
    ELSE [Obj(co.co_type,
              IF co.co_type = "CO_VARIABLE" /\ co.co_show # NullStr
              THEN co.co_show ELSE co.co_command)
            EXCEPT !.co_choice = co.co_choice,
                   !.terminal = co.terminal,
                   !.sets = co.sets,
                   !.pt = [i \in 1..Len(co.pt) |-> Shown(co.pt[i])]]

ShownList(pt) == [i \in 1..Len(pt) |-> Shown(pt[i])]

(***************************************************************************)
(* C21.  Brief rendering does not depend on the suppressed detail: two     *)
(* trees with the same shape, kinds, literal tokens, variable display      *)
(* names, choice strings, terminal and set markers, which differ in help   *)
(* text, hide flags, callbacks, variable type, range/length pairs, expand  *)
(* function, regexps or translate function, are written alike by           *)
(* RenderTree in brief mode.                                               *)
(***************************************************************************)
C21_BriefIndependent ==
    pr.op = "pt_print" /\ pr.res.retval = 0 /\ pr.brief =>
        /\ pr.res.f = pt_print(ShownList(pr.pt), TRUE, TRUE).f
        /\ \A pt \in Trees :
              ShownList(pt) = ShownList(pr.pt) => pt_print(pt, TRUE, TRUE).f = pr.res.f

\* A tree with help text, a hide flag and callbacks was printed in brief
\* mode, and another tree differs from it in suppressed detail only.
C21_Witness ==
    /\ pr.op = "pt_print" /\ pr.res.retval = 0 /\ pr.brief
    /\ pr.res.f = <<"h", ";", "\n">>
    /\ Len(pr.pt[1].co_callbacks) = 3
    /\ \E pt \in Trees : pt # pr.pt /\ ShownList(pt) = ShownList(pr.pt)

\* A call that left res behind allocated at most one buffer and freed what
\* it allocated, wrote f at most once and only when it succeeded.
Tidy(res) ==
    /\ res.news <= 1
    /\ res.frees = res.news
    /\ res.writes <= 1
    /\ res.writes = 1 => res.retval = 0
    /\ res.retval # 0 => res.f = <<>>

(***************************************************************************)
(* C22.  Each call of RenderTree and of RenderNode allocates at most one   *)
(* buffer and has freed every buffer it allocated when it returns, on      *)
(* success, when cbuf_new fails and when the rendering fails; it writes    *)
(* the stream at most once and only on success.                            *)
(* The rendering cannot fail in this code (render_retval), so the third    *)
(* path is checked on print_path for a negative return as well.            *)
(***************************************************************************)
C22_BufferReleased ==
    pr.op # "none" =>
        /\ Tidy(pr.res)
        /\ pr.res.retval = 0 => pr.res.writes = 1 /\ pr.res.news = 1
        /\ \A ok \in BOOLEAN, rv \in {-1, 0} : Tidy(print_path(ok, rv, pr.res.f))

\* pt_print of a tree with objects failed for want of a buffer.
C22_Witness ==
    /\ pr.op = "pt_print"
    /\ pr.pt # <<>>
    /\ pr.res.retval = -1
    /\ pr.res.news = 0 /\ pr.res.frees = 0 /\ pr.res.writes = 0

(***************************************************************************)
(* C23.  RemoveByIndex with an index that is not a valid index of the      *)
(* vector (i < 0 or i >= len, i = len included) is rejected by its bound   *)
(* check: the length and every element are as before and no element is     *)
(* moved.                                                                  *)
(* The check of cvec_del_i is "len == 0 || len < i": on a vector that is   *)
(* not empty it lets i = len and every negative i through, to a memmove    *)
(* outside the vector's storage and to vr_len--.                           *)
(***************************************************************************)
C23_RemoveByIndexRejects ==
    \A h \in Handles, i \in Indices, ub \in UB :
        LET r == cvec_del_i(Mem, h, i, ub)
        IN ~fault /\ (i < 0 \/ i >= cvec_len(Mem, h)) =>
              /\ r.m = Mem
              /\ cvec_len(r.m, h) = cvec_len(Mem, h)
              /\ Elems(r.m, h) = Elems(Mem, h)

(***************************************************************************)
(* C24.  AppendCopy is safe when the source is a slot of the vector        *)
(* itself (source = ElementAt(vec, i)): the appended element equals the    *)
(* value element i had before the call, and the source is never read       *)
(* through a reference that the growth of the vector has invalidated.      *)
(* cvec_append_var calls cvec_add first, whose realloc may move the array, *)
(* and then cv_cp(tail, var) with var as the caller gave it: after a move  *)
(* var points into the freed block.                                        *)
(***************************************************************************)
C24_AppendCopySelf ==
    \A h \in Handles, i \in 0..MaxLen - 1 :
      \A ch \in Grow("ok"), dr \in DanglingRead :
        LET src == [k |-> 0, p |-> cvec_i(Mem, h, i)]
            r == cvec_append_var(Mem, h, src, ch, TRUE, "inplace", dr)
            a == cvec_add(Mem, h, cv_type_get(SrcVal(Mem, src)), ch)
        IN ~fault /\ cvv[h].live /\ i < cvec_len(Mem, h) =>
              /\ Valid(a.m, src.p)
              /\ ~r.m.fault
              /\ r.ret # NullPtr
              /\ Deref(r.m, r.ret) = Elems(Mem, h)[i + 1]
              /\ cvec_len(r.m, h) = cvec_len(Mem, h) + 1

\* What can go wrong in a cvec_dup: malloc of the struct (chs), calloc of the
\* elements (ch), the copy of the name (okn), the cv_cp of element cf.
DupFailures ==
    [chs : Alloc("oom"), ch : Alloc("oom"), okn : BOOLEAN, cf : -1..MaxDupLen - 1]

(***************************************************************************)
(* C25.  Duplicate under allocation failure is all-or-nothing: when the    *)
(* copy of the name or of any element's value fails, it returns NULL, and  *)
(* whenever it returns NULL no partly built vector is left allocated; when *)
(* it returns a vector, every element of it is a copy of the corresponding *)
(* element of v.                                                           *)
(* cvec_dup returns NULL after a failed strdup4 of the name without        *)
(* cvec_free(new), and it does not test what cv_cp returns.                *)
(***************************************************************************)
C25_DuplicateAllOrNothing ==
    \A x \in DupFailures :
        LET r == cvec_dup(Mem, "v", "d", x.chs, x.ch, x.okn, x.cf)
        IN ~fault /\ cvv["v"].live /\ ~cvv["d"].live =>
              /\ ~x.okn /\ cvv["v"].vr_name # 0 => ~r.ok
              /\ 0 <= x.cf /\ x.cf < cvec_len(Mem, "v") => ~r.ok
              /\ ~r.ok => ~r.lost /\ r.m = Mem
              /\ r.ok => Elems(r.m, "d") = Elems(Mem, "v")

====
